---- MODULE Spec2Model ----
(***************************************************************************)
(* Model of the traefik-authhack plugin: an HTTP filter that moves Basic   *)
(* credentials found in query parameters into a cookie (by a 307 redirect) *)
(* and credentials found in that cookie into the Authorization header.     *)
(*                                                                         *)
(* Strings are sequences of tokens.  The six characters "Basic " are one   *)
(* token, every other token stands for a piece of text that holds no       *)
(* "Basic " in it.  A query string is a sequence of key/value pairs, a     *)
(* Cookie header a sequence of name/value pairs, a header a sequence of    *)
(* its values.  The scheme, host and path of the URL never change and are  *)
(* left out, so a URL (and RequestURI) is its query string.                *)
(***************************************************************************)
EXTENDS Integers, Sequences, FiniteSets, TLC

VARIABLES config, pc, hop, inbound, request, response, nextRequests, first,
          log, codec, wrapper, flight

vars == <<config, pc, hop, inbound, request, response, nextRequests, first,
          log, codec, wrapper, flight>>

\* ------------------------------------------------------------------ bounds
MaxParams == 3
MaxCookies == 2
MaxPrefixes == 1
MaxHops == 1
MaxTextLen == 3
MaxJar == 4
MaxOps == 3
MaxInFlight == 2

\* ------------------------------------------------------------ encodedAuth
basicPrefix == <<"Basic ">>

HasPrefix(s, prefix) ==
    /\ Len(s) >= Len(prefix)
    /\ SubSeq(s, 1, Len(prefix)) = prefix

TrimPrefix(s, prefix) ==
    IF HasPrefix(s, prefix) THEN SubSeq(s, Len(prefix) + 1, Len(s)) ELSE s

\* newEncodedAuthWithoutPrefix as it would be had it trimmed once, not in a loop.
newEncodedAuthWithoutPrefix_TrimOnce(encodedAuth) ==
    TrimPrefix(encodedAuth, basicPrefix)

RECURSIVE newEncodedAuthWithoutPrefix(_)
newEncodedAuthWithoutPrefix(encodedAuth) ==
    LET t == TrimPrefix(encodedAuth, basicPrefix)
    IN  IF t # encodedAuth THEN newEncodedAuthWithoutPrefix(t) ELSE encodedAuth

\* base64.StdEncoding.EncodeToString: an injective map whose output holds no
\* space, so it never starts with "Basic ".
Base64(bytes) == <<"b64">> \o bytes

encodeAuthWithoutPrefix(username, password) ==
    Base64(username \o <<":">> \o password)

\* WithPrefix as it would be had the prefix lacked its space.
WithPrefix_NoSpace(a) == <<"Basic">> \o a

WithPrefix(a) == basicPrefix \o a

IsEmpty(a) == a = <<>>

emptyEncodedAuthWithoutPrefix == <<>>

\* ----------------------------------------------------------------- config
AuthorizationHeader == "Authorization"

CreateConfig ==
    [ UsernameQueryParam      |-> "username",
      PasswordQueryParam      |-> "password",
      AuthorizationQueryParam |-> "authorization",
      CookieName              |-> "traefik-authhack",
      CookieDomain            |-> "" ]

\* ------------------------------------------------------------- net/url use
\* The query keys of the model in the order sort.Strings gives them.
SortedKeys == <<"authorization", "page", "password", "username">>

Pair(k, v) == [Key |-> k, Value |-> v]

\* url.URL.Query(): the values of each key, in the order they appear.
ValuesOf(rawQuery, k) ==
    LET RECURSIVE Collect(_)
        Collect(i) ==
            IF i > Len(rawQuery) THEN <<>>
            ELSE IF rawQuery[i].Key = k
                 THEN <<rawQuery[i].Value>> \o Collect(i + 1)
                 ELSE Collect(i + 1)
    IN  Collect(1)

URLQuery(rawQuery) ==
    [k \in {rawQuery[i].Key : i \in 1..Len(rawQuery)} |-> ValuesOf(rawQuery, k)]

\* url.Values.Get: the first value of the key, "" when there is none.
ValuesGet(values, key) ==
    IF key \in DOMAIN values /\ Len(values[key]) > 0 THEN values[key][1] ELSE <<>>

\* url.Values.Del: every value of the key goes.
ValuesDel(values, key) ==
    [k \in (DOMAIN values) \ {key} |-> values[k]]

\* url.Values.Encode as it would be had it written the first value of a key
\* only.
ValuesEncode_FirstValueOnly(values) ==
    LET RECURSIVE Enc(_)
        Enc(i) ==
            IF i > Len(SortedKeys) THEN <<>>
            ELSE IF SortedKeys[i] \in DOMAIN values /\ values[SortedKeys[i]] # <<>>
                 THEN <<Pair(SortedKeys[i], values[SortedKeys[i]][1])>> \o Enc(i + 1)
                 ELSE Enc(i + 1)
    IN  Enc(1)

\* url.Values.Encode: keys sorted, the values of a key in their order.
ValuesEncode(values) ==
    LET RECURSIVE PairsOf(_, _)
        PairsOf(k, vs) ==
            IF vs = <<>> THEN <<>>
            ELSE <<Pair(k, Head(vs))>> \o PairsOf(k, Tail(vs))
        RECURSIVE Enc(_)
        Enc(i) ==
            IF i > Len(SortedKeys) THEN <<>>
            ELSE IF SortedKeys[i] \in DOMAIN values
                 THEN PairsOf(SortedKeys[i], values[SortedKeys[i]]) \o Enc(i + 1)
                 ELSE Enc(i + 1)
    IN  Enc(1)

\* url.URL.String(): only the query string varies in the model.
URLString(rawQuery) == rawQuery

\* ---------------------------------------------------- requestQueryWrapper
NoValues == URLQuery(<<>>)

newQueryWrapper(req) ==
    [request |-> req, queryLoaded |-> FALSE, query |-> NoValues, queryDirty |-> FALSE]

\* The wrapper after getQuery(): the parsed query is cached on first use.
getQuery(w) ==
    IF w.queryLoaded THEN w
    ELSE [w EXCEPT !.query = URLQuery(w.request.RawQuery), !.queryLoaded = TRUE]

Get(w, key) == ValuesGet(getQuery(w).query, key)

\* Del as it would be had it not marked the wrapper dirty.
Del_NotDirty(w, key) ==
    LET g == getQuery(w)
    IN  [g EXCEPT !.query = ValuesDel(g.query, key)]

Del(w, key) ==
    LET g == getQuery(w)
    IN  [g EXCEPT !.query = ValuesDel(g.query, key), !.queryDirty = TRUE]

\* Apply as it would be had it not looked at queryDirty.
Apply_Always(w) ==
    LET rawQuery == ValuesEncode(getQuery(w).query)
    IN  [w EXCEPT !.request = [w.request EXCEPT !.RawQuery = rawQuery,
                                                !.RequestURI = URLString(rawQuery)],
                  !.queryLoaded = FALSE,
                  !.query = NoValues,
                  !.queryDirty = FALSE]

\* Apply as it would be had it left RequestURI alone.
Apply_StaleRequestURI(w) ==
    IF w.queryDirty
    THEN [w EXCEPT !.request = [w.request EXCEPT !.RawQuery = ValuesEncode(w.query)],
                   !.queryLoaded = FALSE,
                   !.query = NoValues,
                   !.queryDirty = FALSE]
    ELSE w

\* Apply as it would be had it encoded the query of the request, not the
\* cached one.
Apply_FromRequest(w) ==
    IF w.queryDirty
    THEN LET rawQuery == ValuesEncode(URLQuery(w.request.RawQuery))
         IN  [w EXCEPT !.request = [w.request EXCEPT !.RawQuery = rawQuery,
                                                     !.RequestURI = URLString(rawQuery)],
                       !.queryLoaded = FALSE,
                       !.query = NoValues,
                       !.queryDirty = FALSE]
    ELSE w

Apply(w) ==
    IF w.queryDirty
    THEN LET rawQuery == ValuesEncode(w.query)
         IN  [w EXCEPT !.request = [w.request EXCEPT !.RawQuery = rawQuery,
                                                     !.RequestURI = URLString(rawQuery)],
                       !.queryLoaded = FALSE,
                       !.query = NoValues,
                       !.queryDirty = FALSE]
    ELSE w

\* ------------------------------------------------------------ http.Header
\* http.Header.Get: the first value of the header, "" when there is none.
HeaderGet(values) == IF values = <<>> THEN <<>> ELSE values[1]

HeaderAdd(values, value) == Append(values, value)

HeaderSet(value) == <<value>>

\* ---------------------------------------------------------- AuthHackPlugin
hasAuthHeader(req) == HeaderGet(req.Authorization) # <<>>

\* getAndScrubAuthQueryParam as it would be had it trimmed one prefix only.
getAndScrubAuthQueryParam_TrimOnce(cfg, query) ==
    LET authorization == Get(query, cfg.AuthorizationQueryParam)
    IN  IF authorization # <<>>
        THEN [result |-> TrimPrefix(authorization, basicPrefix),
              query  |-> Del(query, cfg.AuthorizationQueryParam)]
        ELSE [result |-> emptyEncodedAuthWithoutPrefix, query |-> getQuery(query)]

getAndScrubAuthQueryParam(cfg, query) ==
    LET authorization == Get(query, cfg.AuthorizationQueryParam)
    IN  IF authorization # <<>>
        THEN [result |-> newEncodedAuthWithoutPrefix(authorization),
              query  |-> Del(query, cfg.AuthorizationQueryParam)]
        ELSE [result |-> emptyEncodedAuthWithoutPrefix, query |-> getQuery(query)]

\* getAndScrubUserPassQueryParams as it would be had it not read the password.
getAndScrubUserPassQueryParams_NoPassword(cfg, query) ==
    LET username == Get(query, cfg.UsernameQueryParam)
    IN  IF username # <<>>
        THEN [result |-> encodeAuthWithoutPrefix(username, <<>>),
              query  |-> Del(Del(query, cfg.UsernameQueryParam), cfg.PasswordQueryParam)]
        ELSE [result |-> emptyEncodedAuthWithoutPrefix, query |-> getQuery(query)]

getAndScrubUserPassQueryParams(cfg, query) ==
    LET username == Get(query, cfg.UsernameQueryParam)
        password == Get(query, cfg.PasswordQueryParam)
    IN  IF username # <<>>
        THEN [result |-> encodeAuthWithoutPrefix(username, password),
              query  |-> Del(Del(query, cfg.UsernameQueryParam), cfg.PasswordQueryParam)]
        ELSE [result |-> emptyEncodedAuthWithoutPrefix, query |-> getQuery(query)]

\* url.Values.Set, Add and Has, which the wrapper offers beside Get and Del.
ValuesSet(values, key, value) ==
    [k \in (DOMAIN values) \cup {key} |-> IF k = key THEN <<value>> ELSE values[k]]

ValuesAdd(values, key, value) ==
    [k \in (DOMAIN values) \cup {key} |->
        IF k = key
        THEN (IF key \in DOMAIN values THEN values[key] ELSE <<>>) \o <<value>>
        ELSE values[k]]

ValuesHas(values, key) == key \in DOMAIN values

Set(w, key, value) ==
    LET g == getQuery(w)
    IN  [g EXCEPT !.query = ValuesSet(g.query, key, value), !.queryDirty = TRUE]

Add(w, key, value) ==
    LET g == getQuery(w)
    IN  [g EXCEPT !.query = ValuesAdd(g.query, key, value), !.queryDirty = TRUE]

Has(w, key) == ValuesHas(getQuery(w).query, key)

\* A call of p.log.  The model keeps the calls at level Info; the calls at
\* level Debug, one on every path, are left out.
LogCall(level, message) == [Level |-> level, Message |-> message]

\* getAndScrubAuthQueryParams as it would be had it preferred the username
\* and password parameters.
getAndScrubAuthQueryParams_PreferUserPass(cfg, req) ==
    LET auth        == getAndScrubAuthQueryParam(cfg, newQueryWrapper(req))
        userAndPass == getAndScrubUserPassQueryParams(cfg, auth.query)
    IN  [result   |-> IF IsEmpty(userAndPass.result) THEN auth.result
                      ELSE userAndPass.result,
         mismatch |-> ~IsEmpty(auth.result) /\ auth.result # userAndPass.result,
         log      |-> IF ~IsEmpty(auth.result) /\ auth.result # userAndPass.result
                      THEN <<LogCall("Info", "mismatched")>>
                      ELSE <<>>,
         request  |-> Apply(userAndPass.query).request]

getAndScrubAuthQueryParams(cfg, req) ==
    LET auth        == getAndScrubAuthQueryParam(cfg, newQueryWrapper(req))
        userAndPass == getAndScrubUserPassQueryParams(cfg, auth.query)
    IN  [result   |-> IF IsEmpty(auth.result) THEN userAndPass.result ELSE auth.result,
         mismatch |-> ~IsEmpty(auth.result) /\ auth.result # userAndPass.result,
         log      |-> IF ~IsEmpty(auth.result) /\ auth.result # userAndPass.result
                      THEN <<LogCall("Info", "mismatched")>>
                      ELSE <<>>,
         request  |-> Apply(userAndPass.query).request]

\* removeCookie as it would be had its loop ended at the removed cookie.
removeCookie_StopAtRemoved(req, cookies, skip) ==
    [req EXCEPT !.Cookies = SubSeq(cookies, 1, skip - 1)]

\* The request after the cookie at index skip was dropped: the Cookie header
\* is deleted and every other cookie added back in order.
removeCookie(req, cookies, skip) ==
    LET RECURSIVE AddBack(_)
        AddBack(i) ==
            IF i > Len(cookies) THEN <<>>
            ELSE IF i = skip THEN AddBack(i + 1)
                 ELSE <<cookies[i]>> \o AddBack(i + 1)
    IN  [req EXCEPT !.Cookies = AddBack(1)]

\* getAndScrubAuthCookie as it would be had it not called removeCookie.
getAndScrubAuthCookie_NoScrub(cfg, req) ==
    LET cookies == req.Cookies
        found   == {i \in 1..Len(cookies) : cookies[i].Name = cfg.CookieName}
    IN  IF found # {}
        THEN LET i == CHOOSE j \in found : \A k \in found : j <= k
             IN  [result  |-> newEncodedAuthWithoutPrefix(cookies[i].Value),
                  request |-> req]
        ELSE [result |-> emptyEncodedAuthWithoutPrefix, request |-> req]

\* getAndScrubAuthCookie as it would be had it taken the cookie value as it is.
getAndScrubAuthCookie_AsIs(cfg, req) ==
    LET cookies == req.Cookies
        found   == {i \in 1..Len(cookies) : cookies[i].Name = cfg.CookieName}
    IN  IF found # {}
        THEN LET i == CHOOSE j \in found : \A k \in found : j <= k
             IN  [result  |-> cookies[i].Value,
                  request |-> removeCookie(req, cookies, i)]
        ELSE [result |-> emptyEncodedAuthWithoutPrefix, request |-> req]

getAndScrubAuthCookie(cfg, req) ==
    LET cookies == req.Cookies
        found   == {i \in 1..Len(cookies) : cookies[i].Name = cfg.CookieName}
    IN  IF found # {}
        THEN LET i == CHOOSE j \in found : \A k \in found : j <= k
             IN  [result  |-> newEncodedAuthWithoutPrefix(cookies[i].Value),
                  request |-> removeCookie(req, cookies, i)]
        ELSE [result |-> emptyEncodedAuthWithoutPrefix, request |-> req]

NoResponse == [Code |-> 0, SetCookie |-> <<>>, Location |-> <<>>, Body |-> <<>>]

\* The redirect condition as it would be had it not compared with the cookie.
NeedsRedirect_IgnoresCookie(queryParamsAuth, cookieAuth) ==
    ~IsEmpty(queryParamsAuth)

\* The redirect condition as it would be had it asked for an unset cookie.
NeedsRedirect_OnlyWithoutCookie(queryParamsAuth, cookieAuth) ==
    ~IsEmpty(queryParamsAuth) /\ IsEmpty(cookieAuth)

\* The condition of the redirect branch.
NeedsRedirect(queryParamsAuth, cookieAuth) ==
    ~IsEmpty(queryParamsAuth) /\ queryParamsAuth # cookieAuth

\* The cookie as it would be had it stored the credential with its prefix.
RedirectCookie_WithPrefix(cfg, queryParamsAuth) ==
    [ Name     |-> cfg.CookieName,
      Value    |-> WithPrefix(queryParamsAuth),
      Domain   |-> cfg.CookieDomain,
      Path     |-> "",
      Secure   |-> TRUE,
      HttpOnly |-> TRUE,
      SameSite |-> "Strict" ]

\* The cookie of the redirect; Path keeps the zero value of http.Cookie.
RedirectCookie(cfg, queryParamsAuth) ==
    [ Name     |-> cfg.CookieName,
      Value    |-> queryParamsAuth,
      Domain   |-> cfg.CookieDomain,
      Path     |-> "",
      Secure   |-> TRUE,
      HttpOnly |-> TRUE,
      SameSite |-> "Strict" ]

RedirectResponse(cfg, req, queryParamsAuth) ==
    [ Code      |-> 307,
      SetCookie |-> HeaderSet(RedirectCookie(cfg, queryParamsAuth)),
      Location  |-> HeaderSet(req.RequestURI),
      Body      |-> <<>> ]

\* The promotion as it would be had it written the credential without prefix.
PromoteCookie_WithoutPrefix(req, cookieAuth) ==
    IF ~IsEmpty(cookieAuth)
    THEN [req EXCEPT !.Authorization = HeaderAdd(@, cookieAuth)]
    ELSE req

\* The request with the cookie's credentials moved to the header.
PromoteCookie(req, cookieAuth) ==
    IF ~IsEmpty(cookieAuth)
    THEN [req EXCEPT !.Authorization = HeaderAdd(@, WithPrefix(cookieAuth))]
    ELSE req

\* ServeHTTP as it would be had it looked at the header after the redirect.
ServeHTTPResult_HeaderCheckedLast(cfg, req) ==
    LET hasAuth   == hasAuthHeader(req)
        fromQuery == getAndScrubAuthQueryParams(cfg, req)
        fromCookie == getAndScrubAuthCookie(cfg, fromQuery.request)
        scrubbed  == fromCookie.request
    IN  IF NeedsRedirect(fromQuery.result, fromCookie.result)
        THEN [request  |-> scrubbed,
              response |-> RedirectResponse(cfg, scrubbed, fromQuery.result),
              next     |-> <<>>,
              log      |-> fromQuery.log]
        ELSE IF hasAuth
        THEN [request |-> scrubbed, response |-> NoResponse, next |-> <<scrubbed>>,
              log |-> fromQuery.log]
        ELSE LET promoted == PromoteCookie(scrubbed, fromCookie.result)
             IN  [request |-> promoted, response |-> NoResponse, next |-> <<promoted>>,
                  log |-> fromQuery.log]

\* ServeHTTP as it would be without the return that ends the redirect branch.
ServeHTTPResult_NoReturnAfterRedirect(cfg, req) ==
    LET hasAuth   == hasAuthHeader(req)
        fromQuery == getAndScrubAuthQueryParams(cfg, req)
        fromCookie == getAndScrubAuthCookie(cfg, fromQuery.request)
        scrubbed  == fromCookie.request
        promoted  == PromoteCookie(scrubbed, fromCookie.result)
    IN  IF hasAuth
        THEN [request |-> scrubbed, response |-> NoResponse, next |-> <<scrubbed>>,
              log |-> fromQuery.log]
        ELSE IF NeedsRedirect(fromQuery.result, fromCookie.result)
        THEN [request  |-> promoted,
              response |-> RedirectResponse(cfg, scrubbed, fromQuery.result),
              next     |-> <<promoted>>,
              log      |-> fromQuery.log]
        ELSE [request |-> promoted, response |-> NoResponse, next |-> <<promoted>>,
              log |-> fromQuery.log]

\* The outcome of one call of ServeHTTP: the request as mutated, the response
\* written, and the requests the next handler was called with.
ServeHTTPResult(cfg, req) ==
    LET hasAuth   == hasAuthHeader(req)
        fromQuery == getAndScrubAuthQueryParams(cfg, req)
        fromCookie == getAndScrubAuthCookie(cfg, fromQuery.request)
        scrubbed  == fromCookie.request
    IN  IF hasAuth
        THEN [request |-> scrubbed, response |-> NoResponse, next |-> <<scrubbed>>,
              log |-> fromQuery.log]
        ELSE IF NeedsRedirect(fromQuery.result, fromCookie.result)
        THEN [request  |-> scrubbed,
              response |-> RedirectResponse(cfg, scrubbed, fromQuery.result),
              next     |-> <<>>,
              log      |-> fromQuery.log]
        ELSE LET promoted == PromoteCookie(scrubbed, fromCookie.result)
             IN  [request |-> promoted, response |-> NoResponse, next |-> <<promoted>>,
                  log |-> fromQuery.log]

\* ------------------------------------------------- AuthHack, query only
AuthenticationHeader == "Authentication"

BasicPrefix == <<"Basic ">>

\* The Config of the query-only filter set to the parameter names of cfg.
AlignedConfig(cfg) ==
    [ UsernameKey       |-> cfg.UsernameQueryParam,
      PasswordKey       |-> cfg.PasswordQueryParam,
      AuthenticationKey |-> cfg.AuthorizationQueryParam ]

\* The request with the values of its Authentication header, which the
\* query-only filter reads and writes.
WithAuthentication(req, values) ==
    [ Authentication |-> values,
      Authorization  |-> req.Authorization,
      RawQuery       |-> req.RawQuery,
      RequestURI     |-> req.RequestURI,
      Cookies        |-> req.Cookies ]

\* modifyRequest as it would be had it not added the header.
modifyRequest_NoHeader(cfg, req) ==
    IF HeaderGet(req.Authentication) # <<>> THEN req
    ELSE LET query          == URLQuery(req.RawQuery)
             authentication == ValuesGet(query, cfg.AuthenticationKey)
             username       == ValuesGet(query, cfg.UsernameKey)
         IN  IF authentication # <<>>
             THEN [req EXCEPT !.RawQuery =
                                  ValuesEncode(ValuesDel(query, cfg.AuthenticationKey))]
             ELSE IF username # <<>>
             THEN [req EXCEPT !.RawQuery =
                                  ValuesEncode(ValuesDel(ValuesDel(query, cfg.UsernameKey),
                                                         cfg.PasswordKey))]
             ELSE req

\* The request as modifyRequest leaves it; RequestURI is not written.
modifyRequest(cfg, req) ==
    IF HeaderGet(req.Authentication) # <<>> THEN req
    ELSE LET query          == URLQuery(req.RawQuery)
             authentication == ValuesGet(query, cfg.AuthenticationKey)
             username       == ValuesGet(query, cfg.UsernameKey)
             password       == ValuesGet(query, cfg.PasswordKey)
         IN  IF authentication # <<>>
             THEN [req EXCEPT !.RawQuery =
                                  ValuesEncode(ValuesDel(query, cfg.AuthenticationKey)),
                              !.Authentication =
                                  HeaderAdd(@, IF HasPrefix(authentication, BasicPrefix)
                                               THEN authentication
                                               ELSE BasicPrefix \o authentication)]
             ELSE IF username # <<>>
             THEN [req EXCEPT !.RawQuery =
                                  ValuesEncode(ValuesDel(ValuesDel(query, cfg.UsernameKey),
                                                         cfg.PasswordKey)),
                              !.Authentication =
                                  HeaderAdd(@, BasicPrefix
                                               \o Base64(username \o <<":">> \o password))]
             ELSE req

\* The outcome of one call of AuthHack.ServeHTTP: the request as modified is
\* handed to the next handler, and no response is written.
AuthHackServeHTTP(cfg, req) ==
    LET modified == modifyRequest(cfg, req)
    IN  [request |-> modified, response |-> NoResponse, next |-> <<modified>>]

\* ------------------------------------------------------- inbound requests
\* The texts requests are built from.
TestUsername == <<"u">>
TestPassword == <<"p">>
OtherAuth    == <<"x">>

RECURSIVE Prefixed(_, _)
Prefixed(n, s) == IF n = 0 THEN s ELSE basicPrefix \o Prefixed(n - 1, s)

EncodedAuths ==
    {OtherAuth, encodeAuthWithoutPrefix(TestUsername, TestPassword)}

\* The texts an authorization parameter carries: nothing, an encoded
\* credential, a credential behind prefixes, and prefixes alone.
AuthTexts ==
    {<<>>} \cup EncodedAuths
        \cup {Prefixed(n, OtherAuth) : n \in 1..MaxPrefixes}
        \cup {Prefixed(MaxPrefixes, <<>>)}

QueryPairs ==
    {Pair("authorization", v) : v \in AuthTexts}
        \cup {Pair("username", v) : v \in {<<>>, TestUsername}}
        \cup {Pair("password", TestPassword), Pair("page", <<"1">>)}

Cookie(name, value) == [Name |-> name, Value |-> value]

RequestCookies ==
    {Cookie(CreateConfig.CookieName, v) :
        v \in EncodedAuths \cup {Prefixed(n, OtherAuth) : n \in 1..MaxPrefixes}}
        \cup {Cookie("session", <<"s">>)}

AuthorizationHeaders ==
    {<<>>, << <<>> >>, <<WithPrefix(<<"h">>)>>}

SeqsUpTo(S, n) == UNION {[1..k -> S] : k \in 0..n}

NewRequest(authorization, rawQuery, cookies) ==
    [ Authorization |-> authorization,
      RawQuery      |-> rawQuery,
      RequestURI    |-> URLString(rawQuery),
      Cookies       |-> cookies ]

Requests ==
    {NewRequest(a, q, c) : a \in AuthorizationHeaders,
                           q \in SeqsUpTo(QueryPairs, MaxParams),
                           c \in SeqsUpTo(RequestCookies, MaxCookies)}

NoRequest == NewRequest(<<>>, <<>>, <<>>)

NoExchange == [request |-> NoRequest, response |-> NoResponse]

\* No wrapper has been created yet.
NoWrapper ==
    [ phase |-> "none", w |-> newQueryWrapper(NoRequest), created |-> NoRequest,
      ops |-> <<>>, writes |-> 0 ]

\* No request is being served concurrently.
NoFlights == <<>>

\* The codec has been applied to nothing yet.
NoCodec == [op |-> "none", arg |-> <<>>, value |-> <<>>, origin |-> <<>>]

\* ----------------------------------------------------------------- actions
Init ==
    /\ config = CreateConfig
    /\ pc = "idle"
    /\ hop = 0
    /\ inbound = NoRequest
    /\ request = NoRequest
    /\ response = NoResponse
    /\ nextRequests = <<>>
    /\ first = NoExchange
    /\ log = <<>>
    /\ codec = NoCodec
    /\ wrapper = NoWrapper
    /\ flight = NoFlights

\* A client sends a request; the server hands it to the plugin.
ClientSend ==
    /\ pc = "idle"
    /\ \E req \in Requests :
        /\ inbound' = req
        /\ request' = req
    /\ pc' = "received"
    /\ UNCHANGED <<config, hop, response, nextRequests, first, log, codec,
                 wrapper, flight>>

ServeHTTP ==
    /\ pc = "received"
    /\ LET result == ServeHTTPResult(config, request)
       IN  /\ request' = result.request
           /\ response' = result.response
           /\ nextRequests' = result.next
           /\ log' = log \o result.log
    /\ pc' = "done"
    /\ UNCHANGED <<config, hop, inbound, first, codec, wrapper, flight>>

\* The cookies a client sends after the redirect: what it sent before, with
\* the cookie of Set-Cookie stored over any cookie of that name.
StoreCookie(cookies, setCookie) ==
    SelectSeq(cookies, LAMBDA c : c.Name # setCookie.Name)
        \o <<Cookie(setCookie.Name, setCookie.Value)>>

\* The client follows the redirect: it requests the Location URL, with the
\* cookie of Set-Cookie if it stored it.
ClientFollowRedirect ==
    /\ pc = "done"
    /\ hop < MaxHops
    /\ response.Code = 307
    /\ \E stored \in BOOLEAN :
        LET cookies == IF stored
                       THEN StoreCookie(inbound.Cookies, response.SetCookie[1])
                       ELSE inbound.Cookies
            req == NewRequest(inbound.Authorization, response.Location[1], cookies)
        IN  /\ inbound' = req
            /\ request' = req
    /\ first' = [request |-> inbound, response |-> response]
    /\ response' = NoResponse
    /\ nextRequests' = <<>>
    /\ hop' = hop + 1
    /\ pc' = "received"
    /\ log' = <<>>
    /\ UNCHANGED <<config, codec, wrapper, flight>>

Next == ClientSend \/ ServeHTTP \/ ClientFollowRedirect

Spec == Init /\ [][Next]_vars

\* ------------------------------------------------- vocabulary of the claims
Done == pc = "done"

Forwarded == Len(nextRequests) >= 1

Redirected == response.Code = 307

CredentialKeys ==
    {config.UsernameQueryParam, config.PasswordQueryParam, config.AuthorizationQueryParam}

\* The query string holds a non-empty value for the key.
HasNonEmptyValue(rawQuery, key) ==
    \E i \in 1..Len(rawQuery) : rawQuery[i].Key = key /\ rawQuery[i].Value # <<>>

\* The first value the query string gives the key, "" when it has none.
FirstValue(rawQuery, key) ==
    IF \E i \in 1..Len(rawQuery) : rawQuery[i].Key = key
    THEN rawQuery[CHOOSE i \in 1..Len(rawQuery) :
                      /\ rawQuery[i].Key = key
                      /\ \A j \in 1..(i - 1) : rawQuery[j].Key # key].Value
    ELSE <<>>

\* The text behind all of its leading "Basic " prefixes.
Canonical(s) ==
    LET n == CHOOSE k \in 0..Len(s) :
                 /\ \A i \in 1..k : s[i] = "Basic "
                 /\ k = Len(s) \/ s[k + 1] # "Basic "
    IN  SubSeq(s, n + 1, Len(s))

\* The credential the query parameters of a request carry.
QueryCredential(req) ==
    LET authorization == FirstValue(req.RawQuery, config.AuthorizationQueryParam)
        username      == FirstValue(req.RawQuery, config.UsernameQueryParam)
        password      == FirstValue(req.RawQuery, config.PasswordQueryParam)
    IN  IF Canonical(authorization) # <<>> THEN Canonical(authorization)
        ELSE IF username # <<>> THEN <<"b64">> \o username \o <<":">> \o password
        ELSE <<>>

HasAuthCookie(req) ==
    \E i \in 1..Len(req.Cookies) : req.Cookies[i].Name = config.CookieName

\* The credential the first cookie of the configured name carries.
CookieCredential(req) ==
    IF HasAuthCookie(req)
    THEN Canonical(req.Cookies[CHOOSE i \in 1..Len(req.Cookies) :
                       /\ req.Cookies[i].Name = config.CookieName
                       /\ \A j \in 1..(i - 1) :
                              req.Cookies[j].Name # config.CookieName].Value)
    ELSE <<>>

HasNonEmptyAuthHeader(req) ==
    req.Authorization # <<>> /\ req.Authorization[1] # <<>>

\* ------------------------------------------------------------------ claims

\* C1: the request handed to the next handler has no non-empty value for the
\* username, password or authorization query parameter.
C1_ForwardedQueryScrubbed ==
    (Done /\ Forwarded) =>
        \A key \in CredentialKeys : ~HasNonEmptyValue(nextRequests[1].RawQuery, key)

\* C2: the request handed to the next handler carries no cookie whose name is
\* the configured cookie name.
C2_ForwardedCookieScrubbed ==
    (Done /\ Forwarded) => ~HasAuthCookie(nextRequests[1])

\* C3: a request with a non-empty Authorization header is forwarded with that
\* header unchanged and no response is written, whatever the query parameters
\* and the cookie carry.
C3_HeaderTakesPrecedence ==
    (Done /\ HasNonEmptyAuthHeader(inbound)) =>
        /\ Len(nextRequests) = 1
        /\ nextRequests[1].Authorization = inbound.Authorization
        /\ response = NoResponse

C3_Witness ==
    /\ Done
    /\ HasNonEmptyAuthHeader(inbound)
    /\ QueryCredential(inbound) # <<>>
    /\ CookieCredential(inbound) # <<>>
    /\ QueryCredential(inbound) # CookieCredential(inbound)
    /\ Forwarded

\* C4: without a non-empty Authorization header, a non-empty query credential
\* that differs from the cookie credential (an empty one included) is answered
\* with status 307 and an empty body, and the next handler is not invoked.
C4_RedirectOnNewCredential ==
    ( /\ Done
      /\ ~HasNonEmptyAuthHeader(inbound)
      /\ QueryCredential(inbound) # <<>>
      /\ QueryCredential(inbound) # CookieCredential(inbound) ) =>
        /\ response.Code = 307
        /\ response.Body = <<>>
        /\ nextRequests = <<>>

C4_Witness ==
    /\ Done
    /\ ~HasNonEmptyAuthHeader(inbound)
    /\ QueryCredential(inbound) # <<>>
    /\ CookieCredential(inbound) # <<>>
    /\ QueryCredential(inbound) # CookieCredential(inbound)
    /\ Redirected

\* C5: on a redirect the Set-Cookie header carries the configured name and
\* domain, the prefix-free credential of the query parameters (not the
\* cookie's) as its value, and Secure, HttpOnly and SameSite=Strict; a query
\* with a username alone gives the value encode(username, "").
C5_RedirectCookie ==
    (Done /\ Redirected) =>
        /\ Len(response.SetCookie) = 1
        /\ LET cookie == response.SetCookie[1]
           IN  /\ cookie.Name = config.CookieName
               /\ cookie.Domain = config.CookieDomain
               /\ cookie.Value = QueryCredential(inbound)
               /\ cookie.Value # CookieCredential(inbound)
               /\ cookie.Value # <<>> /\ cookie.Value[1] # "Basic "
               /\ cookie.Secure /\ cookie.HttpOnly /\ cookie.SameSite = "Strict"
               /\ ( /\ FirstValue(inbound.RawQuery, config.AuthorizationQueryParam) = <<>>
                    /\ FirstValue(inbound.RawQuery, config.PasswordQueryParam) = <<>> )
                  => cookie.Value =
                         <<"b64">> \o FirstValue(inbound.RawQuery, config.UsernameQueryParam)
                                   \o <<":">>

C5_Witness ==
    /\ Done /\ Redirected
    /\ FirstValue(inbound.RawQuery, config.AuthorizationQueryParam) = <<>>
    /\ FirstValue(inbound.RawQuery, config.PasswordQueryParam) = <<>>
    /\ CookieCredential(inbound) # <<>>
    /\ response.SetCookie[1].Value = <<"b64", "u", ":">>

\* C6: a request with no Authorization header, no credential in the query and
\* a non-empty credential c in the cookie is forwarded with the Authorization
\* header "Basic " followed by c, one prefix only, and no response is written.
C6_CookiePromoted ==
    ( /\ Done
      /\ inbound.Authorization = <<>>
      /\ QueryCredential(inbound) = <<>>
      /\ CookieCredential(inbound) # <<>> ) =>
        /\ Len(nextRequests) = 1
        /\ nextRequests[1].Authorization = <<<<"Basic ">> \o CookieCredential(inbound)>>
        /\ nextRequests[1].Authorization[1][2] # "Basic "
        /\ response = NoResponse

C6_Witness ==
    /\ Done
    /\ inbound.Authorization = <<>>
    /\ QueryCredential(inbound) = <<>>
    /\ CookieCredential(inbound) # <<>>
    /\ Forwarded
    /\ nextRequests[1].Authorization = <<<<"Basic ", "x">>>>

\* The three outcomes of a request.
ForwardedUnchanged ==
    /\ Len(nextRequests) = 1
    /\ response = NoResponse
    /\ nextRequests[1].Authorization = inbound.Authorization

ForwardedWithHeaderAdded ==
    /\ Len(nextRequests) = 1
    /\ response = NoResponse
    /\ Len(nextRequests[1].Authorization) = Len(inbound.Authorization) + 1
    /\ SubSeq(nextRequests[1].Authorization, 1, Len(inbound.Authorization))
           = inbound.Authorization

RedirectedWithCookie ==
    /\ nextRequests = <<>>
    /\ response.Code = 307
    /\ Len(response.SetCookie) = 1

\* C7: every request ends in exactly one of: forwarded with the header
\* unchanged, forwarded with a header added, redirected with Set-Cookie; the
\* next handler is invoked at most once, and exactly when no response is
\* written.
C7_ExactlyOneOutcome ==
    Done =>
        /\ Cardinality({o \in {"unchanged", "added", "redirect"} :
               \/ o = "unchanged" /\ ForwardedUnchanged
               \/ o = "added" /\ ForwardedWithHeaderAdded
               \/ o = "redirect" /\ RedirectedWithCookie}) = 1
        /\ Len(nextRequests) <= 1
        /\ Len(nextRequests) = 1 <=> response = NoResponse

C7_Witness ==
    /\ Done
    /\ RedirectedWithCookie
    /\ CookieCredential(inbound) # <<>>
    /\ inbound.Authorization = << <<>> >>

\* C8 as stated: on a redirect the Location header is the URI the request
\* had when the filter was entered.
C8_LocationIsOriginalURI ==
    (Done /\ Redirected) => response.Location = <<inbound.RequestURI>>

\* C8 as amended: on a redirect the Location header is the RequestURI of the
\* request as the query scrubbing rewrote it (the serialized URL without the
\* parameters that were deleted), which is never the URI at entry.
C8_LocationIsScrubbedURI ==
    (Done /\ Redirected) =>
        /\ response.Location = <<request.RequestURI>>
        /\ request.RequestURI = request.RawQuery
        /\ response.Location[1] # inbound.RequestURI
        /\ Len(response.Location[1]) < Len(inbound.RequestURI)
        /\ \A i \in 1..Len(response.Location[1]) :
               \E j \in 1..Len(inbound.RequestURI) :
                   response.Location[1][i] = inbound.RequestURI[j]

C8_Witness ==
    /\ Done /\ Redirected
    /\ FirstValue(inbound.RawQuery, "page") # <<>>
    /\ response.Location = <<<<Pair("page", <<"1">>)>>>>

\* C9: on a redirect the Location header holds no non-empty value for the
\* username, password or authorization query parameter.
C9_LocationScrubbed ==
    (Done /\ Redirected) =>
        \A key \in CredentialKeys : ~HasNonEmptyValue(response.Location[1], key)

\* C10: a client that sent credential c in the query (no header, no cookie),
\* was redirected, stored the cookie and requested the Location URL with it
\* has this second request forwarded with Authorization "Basic " followed by
\* c and without the cookie, and is not redirected again.
C10_Handshake ==
    ( /\ Done
      /\ hop = 1
      /\ first.request.Authorization = <<>>
      /\ first.request.Cookies = <<>>
      /\ inbound.Cookies =
             <<Cookie(config.CookieName, first.response.SetCookie[1].Value)>> ) =>
        /\ Len(nextRequests) = 1
        /\ nextRequests[1].Authorization
               = <<<<"Basic ">> \o QueryCredential(first.request)>>
        /\ ~HasAuthCookie(nextRequests[1])
        /\ response = NoResponse

C10_Witness ==
    /\ Done
    /\ hop = 1
    /\ first.request.Authorization = <<>>
    /\ first.request.Cookies = <<>>
    /\ first.response.Code = 307
    /\ QueryCredential(first.request) = <<"b64", "u", ":", "p">>
    /\ HasAuthCookie(inbound)
    /\ Forwarded

\* The query string has the key, with whatever value.
HasKey(rawQuery, key) == \E i \in 1..Len(rawQuery) : rawQuery[i].Key = key

\* A request without Authorization header and credential cookie whose query
\* carries a username and a password.
CarriesUserAndPass(req) ==
    /\ req.Authorization = <<>>
    /\ ~HasAuthCookie(req)
    /\ FirstValue(req.RawQuery, config.UsernameQueryParam) # <<>>
    /\ FirstValue(req.RawQuery, config.PasswordQueryParam) # <<>>

EncodedUserAndPass(req) ==
    <<"b64">> \o FirstValue(req.RawQuery, config.UsernameQueryParam)
              \o <<":">> \o FirstValue(req.RawQuery, config.PasswordQueryParam)

\* C11 as stated: a request with no Authorization header and no cookie whose
\* query carries username and password is forwarded with the Authorization
\* header "Basic " followed by encode(username, password) and without those
\* parameters in its URL.
C11_UserAndPassForwarded ==
    (Done /\ CarriesUserAndPass(inbound)) =>
        /\ Len(nextRequests) = 1
        /\ nextRequests[1].Authorization
               = <<<<"Basic ">> \o EncodedUserAndPass(inbound)>>
        /\ ~HasKey(nextRequests[1].RawQuery, config.UsernameQueryParam)
        /\ ~HasKey(nextRequests[1].RawQuery, config.PasswordQueryParam)

\* C11 as amended: such a request, when it has no authorization parameter,
\* is not forwarded but answered with a 307 redirect whose Set-Cookie value is
\* encode(username, password) and whose Location has neither parameter; the
\* request that follows the redirect with that cookie is forwarded with the
\* Authorization header "Basic " followed by encode(username, password) and
\* without those parameters in its URL.
C11_UserAndPassRedirectedThenForwarded ==
    /\ ( /\ Done
         /\ CarriesUserAndPass(inbound)
         /\ ~HasKey(inbound.RawQuery, config.AuthorizationQueryParam) ) =>
           /\ response.Code = 307
           /\ nextRequests = <<>>
           /\ response.SetCookie[1].Value = EncodedUserAndPass(inbound)
           /\ ~HasKey(response.Location[1], config.UsernameQueryParam)
           /\ ~HasKey(response.Location[1], config.PasswordQueryParam)
    /\ ( /\ Done
         /\ hop = 1
         /\ CarriesUserAndPass(first.request)
         /\ ~HasKey(first.request.RawQuery, config.AuthorizationQueryParam)
         /\ HasAuthCookie(inbound) ) =>
           /\ Len(nextRequests) = 1
           /\ response = NoResponse
           /\ nextRequests[1].Authorization
                  = <<<<"Basic ">> \o EncodedUserAndPass(first.request)>>
           /\ ~HasKey(nextRequests[1].RawQuery, config.UsernameQueryParam)
           /\ ~HasKey(nextRequests[1].RawQuery, config.PasswordQueryParam)

C11_Witness ==
    /\ Done
    /\ hop = 1
    /\ CarriesUserAndPass(first.request)
    /\ ~HasKey(first.request.RawQuery, config.AuthorizationQueryParam)
    /\ HasKey(first.request.RawQuery, "page")
    /\ first.response.Code = 307
    /\ HasAuthCookie(inbound)
    /\ Forwarded
    /\ nextRequests[1].Authorization = <<<<"Basic ", "b64", "u", ":", "p">>>>
    /\ nextRequests[1].RawQuery = <<Pair("page", <<"1">>)>>

\* The cookie path the documentation gives as the default of CookiePath.
DefaultCookiePath == "/"

\* C12: on a redirect the Set-Cookie header carries a Path attribute equal to
\* the configured cookie path, "/" unless configured otherwise.
C12_RedirectCookiePath ==
    (Done /\ Redirected) => response.SetCookie[1].Path = DefaultCookiePath

\* A request without a non-empty Authorization header, without a non-empty
\* value for a credential parameter and without the credential cookie.
CarriesNoCredentials(req) ==
    /\ ~HasNonEmptyAuthHeader(req)
    /\ \A key \in CredentialKeys : ~HasNonEmptyValue(req.RawQuery, key)
    /\ ~HasAuthCookie(req)

\* C13: a request with no Authorization header, no credential query
\* parameters and no credential cookie is forwarded with its URL, RequestURI
\* and cookies unchanged and no Authorization header added, and no response
\* status is written.
C13_NoCredentialsUnchanged ==
    (Done /\ CarriesNoCredentials(inbound)) =>
        /\ Len(nextRequests) = 1
        /\ nextRequests[1].RawQuery = inbound.RawQuery
        /\ nextRequests[1].RequestURI = inbound.RequestURI
        /\ nextRequests[1].Cookies = inbound.Cookies
        /\ nextRequests[1].Authorization = inbound.Authorization
        /\ response.Code = 0
        /\ response = NoResponse

C13_Witness ==
    /\ Done
    /\ CarriesNoCredentials(inbound)
    /\ inbound.RawQuery = <<Pair("username", <<>>), Pair("page", <<"1">>)>>
    /\ inbound.Cookies = <<Cookie("session", <<"s">>)>>
    /\ Forwarded

\* C14: without an Authorization header, a non-empty query credential equal
\* to the cookie credential is neither redirected nor dropped: the request is
\* forwarded with the Authorization header "Basic " followed by it.  This
\* holds too when the authorization parameter matches the cookie and the
\* username and password parameters encode another credential.
C14_EqualQueryAndCookiePromoted ==
    ( /\ Done
      /\ inbound.Authorization = <<>>
      /\ QueryCredential(inbound) # <<>>
      /\ QueryCredential(inbound) = CookieCredential(inbound) ) =>
        /\ Len(nextRequests) = 1
        /\ response = NoResponse
        /\ nextRequests[1].Authorization
               = <<<<"Basic ">> \o QueryCredential(inbound)>>

C14_Witness ==
    /\ Done
    /\ inbound.Authorization = <<>>
    /\ Canonical(FirstValue(inbound.RawQuery, config.AuthorizationQueryParam)) = <<"x">>
    /\ FirstValue(inbound.RawQuery, config.UsernameQueryParam) = <<"u">>
    /\ FirstValue(inbound.RawQuery, config.PasswordQueryParam) = <<"p">>
    /\ CookieCredential(inbound) = <<"x">>
    /\ Forwarded
    /\ nextRequests[1].Authorization = <<<<"Basic ", "x">>>>

\* The credential of the authorization parameter and the one of the username
\* and password parameters, each empty when the parameter gives none.
AuthParamCredential(req) ==
    Canonical(FirstValue(req.RawQuery, config.AuthorizationQueryParam))

UserPassCredential(req) ==
    IF FirstValue(req.RawQuery, config.UsernameQueryParam) # <<>>
    THEN <<"b64">> \o FirstValue(req.RawQuery, config.UsernameQueryParam)
                   \o <<":">> \o FirstValue(req.RawQuery, config.PasswordQueryParam)
    ELSE <<>>

BothGivenAndDiffer(req) ==
    /\ AuthParamCredential(req) # <<>>
    /\ UserPassCredential(req) # <<>>
    /\ AuthParamCredential(req) # UserPassCredential(req)

NoCredentialKey(rawQuery) == \A key \in CredentialKeys : ~HasKey(rawQuery, key)

\* C15: when the authorization parameter and the username and password
\* parameters both give a credential and the two differ, the one of the
\* authorization parameter is used (as Set-Cookie value, and in the comparison
\* with the cookie), the request ends in a forward or a redirect as usual,
\* and all three parameters are removed from the request.
C15_AuthorizationParamWins ==
    (Done /\ BothGivenAndDiffer(inbound)) =>
        /\ ForwardedUnchanged \/ ForwardedWithHeaderAdded \/ RedirectedWithCookie
        /\ NoCredentialKey(request.RawQuery)
        /\ Forwarded => NoCredentialKey(nextRequests[1].RawQuery)
        /\ Redirected =>
               /\ response.SetCookie[1].Value = AuthParamCredential(inbound)
               /\ NoCredentialKey(response.Location[1])
        /\ ~HasNonEmptyAuthHeader(inbound) =>
               /\ Redirected <=> AuthParamCredential(inbound) # CookieCredential(inbound)
               /\ Forwarded =>
                      nextRequests[1].Authorization[Len(nextRequests[1].Authorization)]
                          = <<"Basic ">> \o AuthParamCredential(inbound)

C15_Witness ==
    /\ Done
    /\ BothGivenAndDiffer(inbound)
    /\ CookieCredential(inbound) = UserPassCredential(inbound)
    /\ Redirected
    /\ response.SetCookie[1].Value = <<"x">>

\* The query string with n more "Basic " prefixes on the first value of the
\* authorization parameter.
MorePrefixes(rawQuery, n) ==
    [i \in 1..Len(rawQuery) |->
        IF /\ rawQuery[i].Key = config.AuthorizationQueryParam
           /\ \A j \in 1..(i - 1) : rawQuery[j].Key # config.AuthorizationQueryParam
        THEN Pair(rawQuery[i].Key, Prefixed(n, rawQuery[i].Value))
        ELSE rawQuery[i]]

WithMorePrefixes(req, n) ==
    NewRequest(req.Authorization, MorePrefixes(req.RawQuery, n), req.Cookies)

\* C16: the outcome does not depend on the number of leading "Basic "
\* prefixes of the authorization parameter: the request served and the same
\* request with one or more prefixes added to that value end alike (status,
\* next handler called or not, Authorization header and cookies forwarded)
\* and with the same prefix-free Set-Cookie value; when the value is not
\* empty, the whole response and the whole forwarded request are the same.
C16_PrefixCountIrrelevant ==
    (Done /\ HasKey(inbound.RawQuery, config.AuthorizationQueryParam)) =>
        \A n \in 1..(MaxPrefixes + 1) :
            LET other == ServeHTTPResult(config, WithMorePrefixes(inbound, n))
            IN  /\ other.response.Code = response.Code
                /\ other.response.SetCookie = response.SetCookie
                /\ Len(other.next) = Len(nextRequests)
                /\ other.request.Authorization = request.Authorization
                /\ other.request.Cookies = request.Cookies
                /\ Redirected => response.SetCookie[1].Value[1] # "Basic "
                /\ FirstValue(inbound.RawQuery, config.AuthorizationQueryParam) # <<>> =>
                       /\ other.response = response
                       /\ other.next = nextRequests
                       /\ other.request = request

C16_Witness ==
    /\ Done
    /\ FirstValue(inbound.RawQuery, config.AuthorizationQueryParam) = <<"Basic ", "x">>
    /\ ~HasNonEmptyAuthHeader(inbound)
    /\ Redirected
    /\ response.SetCookie[1].Value = <<"x">>
    /\ ServeHTTPResult(config, WithMorePrefixes(inbound, 2)).response = response

\* ------------------------------------------------------- the codec alone
\* The texts the codec is applied to: every text of up to MaxTextLen tokens.
CodecAlphabet == {"Basic ", "x", ":"}

Texts == SeqsUpTo(CodecAlphabet, MaxTextLen)

\* The operations that give an encodedAuthWithoutPrefix.
WithoutPrefixOps ==
    {"newEncodedAuthWithoutPrefix", "encodeAuthWithoutPrefix", "WithoutPrefix", "again"}

MainUnchanged ==
    UNCHANGED <<config, pc, hop, inbound, request, response, nextRequests, first, log,
                wrapper, flight>>

\* newEncodedAuthWithoutPrefix(raw)
CodecNew ==
    /\ codec.op = "none"
    /\ \E raw \in Texts :
        codec' = [ op     |-> "newEncodedAuthWithoutPrefix",
                   arg    |-> raw,
                   value  |-> newEncodedAuthWithoutPrefix(raw),
                   origin |-> raw ]
    /\ MainUnchanged

\* encodeAuthWithoutPrefix(username, password)
CodecEncode ==
    /\ codec.op = "none"
    /\ \E username \in Texts, password \in Texts :
        codec' = [ op     |-> "encodeAuthWithoutPrefix",
                   arg    |-> username \o <<":">> \o password,
                   value  |-> encodeAuthWithoutPrefix(username, password),
                   origin |-> encodeAuthWithoutPrefix(username, password) ]
    /\ MainUnchanged

\* a.WithPrefix() on the encodedAuthWithoutPrefix at hand
CodecWithPrefix ==
    /\ codec.op \in WithoutPrefixOps
    /\ codec' = [ op     |-> "WithPrefix",
                  arg    |-> codec.value,
                  value  |-> WithPrefix(codec.value),
                  origin |-> codec.value ]
    /\ MainUnchanged

\* a.WithoutPrefix() on the encodedAuthWithPrefix at hand
CodecWithoutPrefix ==
    /\ codec.op = "WithPrefix"
    /\ codec' = [ op     |-> "WithoutPrefix",
                  arg    |-> codec.value,
                  value  |-> newEncodedAuthWithoutPrefix(codec.value),
                  origin |-> codec.origin ]
    /\ MainUnchanged

\* newEncodedAuthWithoutPrefix(a.String()) on the encodedAuthWithoutPrefix at
\* hand, as a credential written to the cookie is read back.
CodecAgain ==
    /\ codec.op \in WithoutPrefixOps \ {"again"}
    /\ codec' = [ op     |-> "again",
                  arg    |-> codec.value,
                  value  |-> newEncodedAuthWithoutPrefix(codec.value),
                  origin |-> codec.origin ]
    /\ MainUnchanged

CodecNext ==
    CodecNew \/ CodecEncode \/ CodecWithPrefix \/ CodecWithoutPrefix \/ CodecAgain

CodecSpec == Init /\ [][CodecNext]_vars

\* C17: the prefix added by WithPrefix is taken off again: for every
\* username and password, and for every credential that
\* newEncodedAuthWithoutPrefix gave, WithPrefix followed by WithoutPrefix
\* gives the credential back.
C17_PrefixRoundTrip ==
    /\ codec.op = "WithPrefix" =>
           /\ codec.value # codec.arg
           /\ Len(codec.value) = Len(codec.arg) + 1
    /\ codec.op = "WithoutPrefix" => codec.value = codec.origin

C17_Witness ==
    /\ codec.op = "WithoutPrefix"
    /\ codec.arg = <<"Basic ", "b64", "Basic ", ":", "x">>
    /\ codec.value = <<"b64", "Basic ", ":", "x">>

\* C18: newEncodedAuthWithoutPrefix is idempotent, its result never begins
\* with "Basic " whatever the number of leading prefixes, and the empty text
\* gives the empty credential.
C18_NormalizeIdempotent ==
    /\ codec.op \in {"newEncodedAuthWithoutPrefix", "WithoutPrefix", "again"} =>
           /\ codec.value = <<>> \/ codec.value[1] # "Basic "
           /\ \E n \in 0..Len(codec.arg) :
                  /\ \A i \in 1..n : codec.arg[i] = "Basic "
                  /\ codec.value = SubSeq(codec.arg, n + 1, Len(codec.arg))
    /\ codec.op = "again" => codec.value = codec.arg
    /\ (codec.op = "newEncodedAuthWithoutPrefix" /\ codec.arg = <<>>) =>
           codec.value = <<>>

C18_Witness ==
    /\ codec.op = "again"
    /\ codec.origin = <<"Basic ", "Basic ", "x">>
    /\ codec.arg = <<"x">>
    /\ codec.value = <<"x">>

\* ------------------------------------------------- requests with many cookies
\* The cookies of a browser with two more cookies beside the credential.
JarCookies ==
    {Cookie(CreateConfig.CookieName, v) : v \in EncodedAuths}
        \cup {Cookie("session", <<"s">>), Cookie("theme", <<"t">>)}

JarRequests ==
    {NewRequest(<<>>, q, c) : q \in {<<>>, <<Pair("authorization", OtherAuth)>>},
                              c \in SeqsUpTo(JarCookies, MaxJar)}

\* A client sends a request with up to MaxJar cookies.
ClientSendJar ==
    /\ pc = "idle"
    /\ \E req \in JarRequests :
        /\ inbound' = req
        /\ request' = req
    /\ pc' = "received"
    /\ UNCHANGED <<config, hop, response, nextRequests, first, log, codec,
                 wrapper, flight>>

JarNext == ClientSendJar \/ ServeHTTP

JarSpec == Init /\ [][JarNext]_vars

\* The cookies without the first cookie of the configured name.
WithoutFirstAuthCookie(cookies) ==
    LET i == CHOOSE j \in 1..Len(cookies) :
                 /\ cookies[j].Name = config.CookieName
                 /\ \A k \in 1..(j - 1) : cookies[k].Name # config.CookieName
    IN  [j \in 1..(Len(cookies) - 1) |-> IF j < i THEN cookies[j] ELSE cookies[j + 1]]

OtherCookies(cookies) == SelectSeq(cookies, LAMBDA c : c.Name # config.CookieName)

\* C19: when the filter removes the credential cookie, every other cookie of
\* the request is still there, with its name and value and in the same
\* relative order, and no cookie is added.
C19_OtherCookiesKept ==
    (Done /\ HasAuthCookie(inbound)) =>
        /\ request.Cookies = WithoutFirstAuthCookie(inbound.Cookies)
        /\ OtherCookies(request.Cookies) = OtherCookies(inbound.Cookies)
        /\ Forwarded =>
               /\ nextRequests[1].Cookies = WithoutFirstAuthCookie(inbound.Cookies)
               /\ OtherCookies(nextRequests[1].Cookies) = OtherCookies(inbound.Cookies)

C19_Witness ==
    /\ Done
    /\ Forwarded
    /\ inbound.Cookies = << Cookie("theme", <<"t">>),
                            Cookie(config.CookieName, <<"x">>),
                            Cookie("session", <<"s">>),
                            Cookie("theme", <<"t">>) >>
    /\ nextRequests[1].Cookies = << Cookie("theme", <<"t">>),
                                    Cookie("session", <<"s">>),
                                    Cookie("theme", <<"t">>) >>

MismatchLogged ==
    \E i \in 1..Len(log) : log[i] = LogCall("Info", "mismatched")

\* C20: the mismatch is logged at level Info exactly when the authorization
\* parameter and the username and password parameters both gave a credential
\* and the two differ; it is not logged when the authorization parameter is
\* there alone.
C20_MismatchLoggedIffBothDiffer ==
    Done => (MismatchLogged <=> BothGivenAndDiffer(inbound))

\* The value of the first cookie of the configured name, as it was received.
RawCookieValue(req) ==
    req.Cookies[CHOOSE i \in 1..Len(req.Cookies) :
                    /\ req.Cookies[i].Name = config.CookieName
                    /\ \A j \in 1..(i - 1) : req.Cookies[j].Name # config.CookieName].Value

\* C21 as stated: the cookie's value is the cookie credential as it was
\* received: a query credential that differs from that value is answered with
\* a redirect, and promotion writes "Basic " followed by that value.
C21_CookieValueAsIs ==
    (Done /\ inbound.Authorization = <<>> /\ HasAuthCookie(inbound)) =>
        /\ ( /\ QueryCredential(inbound) # <<>>
             /\ QueryCredential(inbound) # RawCookieValue(inbound) ) => Redirected
        /\ QueryCredential(inbound) = <<>> =>
               /\ Len(nextRequests) = 1
               /\ nextRequests[1].Authorization
                      = <<<<"Basic ">> \o RawCookieValue(inbound)>>

\* C21 as amended: the cookie's value is normalized as the authorization
\* parameter is, its leading "Basic " prefixes taken off: a cookie value
\* "Basic " followed by x and a query credential x are the same credential,
\* so the request is forwarded and not redirected, and promotion writes
\* "Basic ", once, followed by the value without its prefixes.
C21_CookieValueNormalized ==
    (Done /\ inbound.Authorization = <<>> /\ HasAuthCookie(inbound)) =>
        /\ ( /\ QueryCredential(inbound) # <<>>
             /\ QueryCredential(inbound) = Canonical(RawCookieValue(inbound)) ) =>
               /\ ~Redirected
               /\ Len(nextRequests) = 1
        /\ ( /\ QueryCredential(inbound) # <<>>
             /\ QueryCredential(inbound) # Canonical(RawCookieValue(inbound)) ) =>
               Redirected
        /\ Forwarded =>
               /\ nextRequests[1].Authorization
                      = <<<<"Basic ">> \o Canonical(RawCookieValue(inbound))>>
               /\ nextRequests[1].Authorization[1][2] # "Basic "

C21_Witness ==
    /\ Done
    /\ inbound.Authorization = <<>>
    /\ HasAuthCookie(inbound)
    /\ RawCookieValue(inbound) = <<"Basic ", "x">>
    /\ QueryCredential(inbound) = <<"x">>
    /\ Forwarded
    /\ nextRequests[1].Authorization = <<<<"Basic ", "x">>>>

\* ------------------------------------------------------ the wrapper alone
\* The requests a wrapper is created for, and the keys and the value its
\* methods are called with.
WrapperPairs ==
    {Pair("authorization", OtherAuth), Pair("page", <<"1">>), Pair("username", TestUsername)}

WrapperRequests == {NewRequest(<<>>, q, <<>>) : q \in SeqsUpTo(WrapperPairs, 2)}

WrapperKeys == {"authorization", "page"}

WrapperValue == <<"2">>

WrapperCall(op, key) == [op |-> op, key |-> key]

OnlyWrapperChanges ==
    UNCHANGED <<config, pc, hop, inbound, request, response, nextRequests, first, log,
                codec, flight>>

\* newQueryWrapper(request)
WrapperNew ==
    /\ wrapper.phase = "none"
    /\ \E req \in WrapperRequests :
        wrapper' = [ phase |-> "open", w |-> newQueryWrapper(req), created |-> req,
                     ops |-> <<>>, writes |-> 0 ]
    /\ OnlyWrapperChanges

\* w.Get(key)
WrapperGet ==
    /\ wrapper.phase = "open"
    /\ Len(wrapper.ops) < MaxOps
    /\ \E key \in WrapperKeys :
        wrapper' = [wrapper EXCEPT !.w = getQuery(@),
                                   !.ops = Append(@, WrapperCall("Get", key))]
    /\ OnlyWrapperChanges

\* w.Has(key)
WrapperHas ==
    /\ wrapper.phase = "open"
    /\ Len(wrapper.ops) < MaxOps
    /\ \E key \in WrapperKeys :
        wrapper' = [wrapper EXCEPT !.w = getQuery(@),
                                   !.ops = Append(@, WrapperCall("Has", key))]
    /\ OnlyWrapperChanges

\* w.Set(key, value)
WrapperSet ==
    /\ wrapper.phase = "open"
    /\ Len(wrapper.ops) < MaxOps
    /\ \E key \in WrapperKeys :
        wrapper' = [wrapper EXCEPT !.w = Set(@, key, WrapperValue),
                                   !.ops = Append(@, WrapperCall("Set", key))]
    /\ OnlyWrapperChanges

\* w.Add(key, value)
WrapperAdd ==
    /\ wrapper.phase = "open"
    /\ Len(wrapper.ops) < MaxOps
    /\ \E key \in WrapperKeys :
        wrapper' = [wrapper EXCEPT !.w = Add(@, key, WrapperValue),
                                   !.ops = Append(@, WrapperCall("Add", key))]
    /\ OnlyWrapperChanges

\* w.Del(key)
WrapperDel ==
    /\ wrapper.phase = "open"
    /\ Len(wrapper.ops) < MaxOps
    /\ \E key \in WrapperKeys :
        wrapper' = [wrapper EXCEPT !.w = Del(@, key),
                                   !.ops = Append(@, WrapperCall("Del", key))]
    /\ OnlyWrapperChanges

\* w.Apply(), once as the filter calls it, and once more; writes counts the
\* calls that took effect.
WrapperApply ==
    /\ wrapper.phase \in {"open", "applied"}
    /\ Cardinality({i \in 1..Len(wrapper.ops) : wrapper.ops[i].op = "Apply"}) < 2
    /\ wrapper' = [wrapper EXCEPT !.phase = "applied",
                                  !.w = Apply(@),
                                  !.ops = Append(@, WrapperCall("Apply", "")),
                                  !.writes = IF Apply(wrapper.w) # wrapper.w
                                             THEN @ + 1 ELSE @]
    /\ OnlyWrapperChanges

WrapperNext ==
    \/ WrapperNew \/ WrapperGet \/ WrapperHas \/ WrapperSet \/ WrapperAdd
    \/ WrapperDel \/ WrapperApply

WrapperSpec == Init /\ [][WrapperNext]_vars

\* The calls that mark the wrapper dirty.
Mutating == {"Set", "Add", "Del"}

\* The values the calls give when made one after the other on the values.
RECURSIVE Replay(_, _)
Replay(ops, values) ==
    IF ops = <<>> THEN values
    ELSE LET o == Head(ops)
         IN  Replay(Tail(ops),
                    CASE o.op = "Set" -> ValuesSet(values, o.key, WrapperValue)
                      [] o.op = "Add" -> ValuesAdd(values, o.key, WrapperValue)
                      [] o.op = "Del" -> ValuesDel(values, o.key)
                      [] OTHER -> values)

\* C22: after Apply, a wrapper on which no Set, Add or Del was called has left
\* the query string and RequestURI of the request as they were; one on which
\* any was called has the query string encoded from the values the calls gave
\* and RequestURI equal to the serialized URL; after Get and Del calls alone
\* RequestURI equals the URL and has none of the deleted keys; Apply takes
\* effect at most once, and touches nothing but the URL and RequestURI.
C22_WrapperCommit ==
    wrapper.phase = "applied" =>
        LET ops     == wrapper.ops
            req     == wrapper.w.request
            created == wrapper.created
            mutated == \E i \in 1..Len(ops) : ops[i].op \in Mutating
        IN  /\ ~mutated =>
                   /\ req.RawQuery = created.RawQuery
                   /\ req.RequestURI = created.RequestURI
            /\ mutated =>
                   /\ req.RawQuery = ValuesEncode(Replay(ops, URLQuery(created.RawQuery)))
                   /\ req.RequestURI = URLString(req.RawQuery)
            /\ (\A i \in 1..Len(ops) : ops[i].op \in {"Get", "Del", "Apply"}) =>
                   /\ req.RequestURI = URLString(req.RawQuery)
                   /\ \A i \in 1..Len(ops) :
                          ops[i].op = "Del" =>
                              /\ ~HasKey(req.RequestURI, ops[i].key)
                              /\ ~HasKey(req.RawQuery, ops[i].key)
            /\ wrapper.writes <= 1
            /\ wrapper.writes = 1 <=> mutated
            /\ req.Authorization = created.Authorization
            /\ req.Cookies = created.Cookies

C22_Witness ==
    /\ wrapper.phase = "applied"
    /\ wrapper.created.RawQuery = <<Pair("page", <<"1">>), Pair("authorization", OtherAuth)>>
    /\ wrapper.ops = << WrapperCall("Get", "authorization"),
                        WrapperCall("Del", "authorization"),
                        WrapperCall("Apply", ""),
                        WrapperCall("Apply", "") >>
    /\ wrapper.w.request.RequestURI = <<Pair("page", <<"1">>)>>
    /\ wrapper.writes = 1

\* The outcome the query-only filter gives the inbound request when that
\* request has the values for its Authentication header.
QueryOnly(values) ==
    AuthHackServeHTTP(AlignedConfig(config), WithAuthentication(inbound, values))

ConcRequests ==
    {NewRequest(a, q, c) :
        a \in {<<>>, <<WithPrefix(<<"h">>)>>},
        q \in { <<>>,
                <<Pair("page", <<"1">>), Pair("authorization", OtherAuth)>>,
                <<Pair("username", TestUsername), Pair("password", TestPassword)>> },
        c \in {<<>>, <<Cookie(CreateConfig.CookieName, OtherAuth)>>}}

\* The call of ServeHTTP for a request, about to run its first statement.
NewFlight(req) ==
    [ pc              |-> "hasAuthHeader",
      inbound         |-> req,
      request         |-> req,
      query           |-> newQueryWrapper(req),
      hasAuth         |-> FALSE,
      queryParamsAuth |-> emptyEncodedAuthWithoutPrefix,
      cookieAuth      |-> emptyEncodedAuthWithoutPrefix,
      response        |-> NoResponse,
      next            |-> <<>> ]

\* The local variables of a call serve that call only, as if they had been
\* fields of the plugin, which every call shares.
Locals_OfPlugin(fl, i) ==
    [fl[i] EXCEPT !.queryParamsAuth = fl[1].queryParamsAuth,
                  !.cookieAuth = fl[1].cookieAuth]

\* The local variables of the call that serves request i.
Locals(fl, i) == fl[i]

OnlyFlightsChange ==
    UNCHANGED <<config, pc, hop, inbound, request, response, nextRequests, first,
                codec, wrapper>>

\* The server hands requests to the plugin, one goroutine for each.
ConcAccept ==
    /\ flight = NoFlights
    /\ \E reqs \in [1..MaxInFlight -> ConcRequests] :
        flight' = [i \in 1..MaxInFlight |-> NewFlight(reqs[i])]
    /\ UNCHANGED log
    /\ OnlyFlightsChange

\* hasAuthHeader := p.hasAuthHeader(request)
ConcHasAuthHeader(i) ==
    /\ flight[i].pc = "hasAuthHeader"
    /\ flight' = [flight EXCEPT ![i].hasAuth = hasAuthHeader(flight[i].request),
                                ![i].pc = "authQueryParam"]
    /\ UNCHANGED log
    /\ OnlyFlightsChange

\* query := newQueryWrapper(request); result := p.getAndScrubAuthQueryParam(query)
ConcAuthQueryParam(i) ==
    /\ flight[i].pc = "authQueryParam"
    /\ LET auth == getAndScrubAuthQueryParam(config,
                                             newQueryWrapper(flight[i].request))
       IN  flight' = [flight EXCEPT ![i].queryParamsAuth = auth.result,
                                    ![i].query = auth.query,
                                    ![i].pc = "userPassQueryParams"]
    /\ UNCHANGED log
    /\ OnlyFlightsChange

\* userAndPassResult := p.getAndScrubUserPassQueryParams(query), and the
\* choice between the two results, with its log line.
ConcUserPassQueryParams(i) ==
    /\ flight[i].pc = "userPassQueryParams"
    /\ LET result      == flight[i].queryParamsAuth
           userAndPass == getAndScrubUserPassQueryParams(config, flight[i].query)
       IN  /\ flight' = [flight EXCEPT ![i].queryParamsAuth =
                                           IF IsEmpty(result) THEN userAndPass.result
                                           ELSE result,
                                       ![i].query = userAndPass.query,
                                       ![i].pc = "Apply"]
           /\ log' = IF ~IsEmpty(result) /\ result # userAndPass.result
                     THEN Append(log, LogCall("Info", "mismatched"))
                     ELSE log
    /\ OnlyFlightsChange

\* query.Apply()
ConcApply(i) ==
    /\ flight[i].pc = "Apply"
    /\ LET applied == Apply(flight[i].query)
       IN  flight' = [flight EXCEPT ![i].query = applied,
                                    ![i].request = applied.request,
                                    ![i].pc = "authCookie"]
    /\ UNCHANGED log
    /\ OnlyFlightsChange

\* cookieAuthWithoutPrefix := p.getAndScrubAuthCookie(request)
ConcAuthCookie(i) ==
    /\ flight[i].pc = "authCookie"
    /\ LET fromCookie == getAndScrubAuthCookie(config, flight[i].request)
       IN  flight' = [flight EXCEPT ![i].cookieAuth = fromCookie.result,
                                    ![i].request = fromCookie.request,
                                    ![i].pc = "decide"]
    /\ UNCHANGED log
    /\ OnlyFlightsChange

\* The three branches that end ServeHTTP.
ConcDecide(i) ==
    /\ flight[i].pc = "decide"
    /\ LET f == Locals(flight, i)
       IN  flight' =
               IF f.hasAuth
               THEN [flight EXCEPT ![i].next = <<f.request>>, ![i].pc = "done"]
               ELSE IF NeedsRedirect(f.queryParamsAuth, f.cookieAuth)
               THEN [flight EXCEPT ![i].response =
                                       RedirectResponse(config, f.request,
                                                        f.queryParamsAuth),
                                   ![i].pc = "done"]
               ELSE LET promoted == PromoteCookie(f.request, f.cookieAuth)
                    IN  [flight EXCEPT ![i].request = promoted,
                                       ![i].next = <<promoted>>,
                                       ![i].pc = "done"]
    /\ UNCHANGED log
    /\ OnlyFlightsChange

ConcNext ==
    \/ ConcAccept
    \/ \E i \in DOMAIN flight :
           \/ ConcHasAuthHeader(i)
           \/ ConcAuthQueryParam(i)
           \/ ConcUserPassQueryParams(i)
           \/ ConcApply(i)
           \/ ConcAuthCookie(i)
           \/ ConcDecide(i)

ConcSpec == Init /\ [][ConcNext]_vars

\* C24: of the requests one plugin serves at the same time, under every
\* interleaving of the steps of their calls, each ends with the response, the
\* call of the next handler and the request it would have ended with had it
\* been served alone; and the configuration stays as it was created.
C24_ConcurrentAsAlone ==
    /\ config = CreateConfig
    /\ \A i \in DOMAIN flight :
           flight[i].pc = "done" =>
               LET alone == ServeHTTPResult(config, flight[i].inbound)
               IN  /\ flight[i].response = alone.response
                   /\ flight[i].next = alone.next
                   /\ flight[i].request = alone.request

C24_Witness ==
    /\ flight # NoFlights
    /\ flight[1].pc = "done" /\ flight[2].pc = "decide"
    /\ flight[1].response.Code = 307
    /\ flight[1].response.SetCookie[1].Value = <<"b64", "u", ":", "p">>
    /\ flight[1].inbound.Cookies # <<>>
    /\ flight[2].inbound.Authorization = <<>>
    /\ flight[2].queryParamsAuth = <<>>
    /\ flight[2].cookieAuth = OtherAuth

\* The query keys that are no credential parameter.
OtherKeys == {SortedKeys[i] : i \in 1..Len(SortedKeys)} \ CredentialKeys

\* The query string the request goes on with: the one handed to the next
\* handler, or the one of Location.
OutboundQuery ==
    IF Redirected THEN response.Location[1] ELSE nextRequests[1].RawQuery

C26_NoRedirectLoop ==
    (Done /\ hop >= 1) =>
        /\ first.response.Code = 307
        /\ inbound.RawQuery = first.response.Location[1]
        /\ QueryCredential(inbound) = <<>>
        /\ ~Redirected
        /\ response = NoResponse
        /\ Len(nextRequests) = 1
        /\ ~HasAuthCookie(inbound) =>
               /\ nextRequests[1].Authorization = inbound.Authorization
               /\ ~HasNonEmptyAuthHeader(nextRequests[1])

C26_Witness ==
    /\ Done
    /\ hop = 1
    /\ first.response.Code = 307
    /\ HasKey(first.request.RawQuery, "page")
    /\ UserPassCredential(first.request) # <<>>
    /\ first.request.Cookies = <<>>
    /\ inbound.Cookies = <<>>
    /\ Forwarded
    /\ nextRequests[1].Authorization = <<>>
    /\ nextRequests[1].RawQuery = <<Pair("page", <<"1">>)>>

\* C27: a request forwarded after the promotion of the cookie credential c
\* has exactly one Authorization header value, "Basic " followed by c, which
\* is the value a reader of the header gets; so too when the inbound request
\* had an Authorization header with an empty value.
C27_PromotedHeaderIsOnlyValue ==
    ( /\ Done
      /\ Forwarded
      /\ ~HasNonEmptyAuthHeader(inbound)
      /\ CookieCredential(inbound) # <<>> ) =>
        /\ Len(nextRequests[1].Authorization) = 1
        /\ HeaderGet(nextRequests[1].Authorization)
               = <<"Basic ">> \o CookieCredential(inbound)

====
